---- MODULE Spec2Model ----
(***************************************************************************)
(* Model of the acoustic text codec in src/src/lib/audioCodec.ts: the     *)
(* AudioCodec class (tone mapping, encodeText, startListening/analyze,    *)
(* stopListening) and the App handlers that drive it.                     *)
(*                                                                         *)
(* Units.  Frequencies are integers in units of 1/Scale Hz (Scale = 32),  *)
(* so that every FFT bin centre maxIndex * 48000 / 4096 Hz is an integer. *)
(* Times are milliseconds, as Date.now() and setTimeout count them.       *)
(* Text is a sequence of UTF-16 code units (what charCodeAt(0) returns).  *)
(***************************************************************************)
EXTENDS Integers, Sequences, FiniteSets, TLC

VARIABLES
    audioContext,   \* this.audioContext: "null", "running" or "suspended"
    mediaStream,    \* this.mediaStream: NULL or the id of the captured stream
    analyser,       \* this.analyser: NULL or the id of the analyser node
    liveTracks,     \* ids of captured streams whose tracks were not stopped
    loops,          \* one record per startListening invocation (its closure)
    decoder,        \* every value passed to decoder$.next, in order
    now,            \* the wall clock, ms
    calls,          \* one record per encodeText invocation
    tones,          \* every tone started by source.start(), in order
    isSending,      \* App state isSending
    channel,        \* how many of the tones reached the receiver, and when
    partial,        \* per startListening invocation: the buffer its receiver
                    \* held, RECEIVING, when stopListening was last called,
                    \* until a Start Marker tick clears it
    probe,          \* a character code, a reading near its tone, its decoding
    event           \* the operation that produced this state, with its inputs

vars == <<audioContext, mediaStream, analyser, liveTracks, loops, decoder,
          now, calls, tones, isSending, channel, partial, probe, event>>

rxVars == <<mediaStream, analyser, liveTracks, loops, decoder>>
txVars == <<calls, tones, isSending>>
auxVars == <<channel, partial, probe>>

----------------------------------------------------------------------------
(* Bounds of the model *)

MaxTime == 85       \* the clock stops here
MaxLifeTime == 41   \* the clock stops here in the lifecycle specification
MaxLen == 2         \* longest buffer / text explored
MaxFrames == 2      \* longest decoder history explored
MaxLoops == 2       \* startListening invocations explored
MaxCalls == 2       \* encodeText invocations explored

----------------------------------------------------------------------------
(* Constants of the program *)

NULL == 0
Scale == 32
SAMPLE_RATE == 48000
FFT_SIZE == 4096
CHAR_DURATION == 50
BASE_FREQUENCY == 2000 * Scale
FREQUENCY_STEP == 150 * Scale
START_MARKER_FREQ == 1800 * Scale
\* an End Marker placed on the tone of the lowest printable symbol
END_MARKER_FREQ_inBand == 6800 * Scale
END_MARKER_FREQ == 1600 * Scale
SIGNAL_THRESHOLD == 150
FREQUENCY_TOLERANCE == 40 * Scale
MinCode == 32
MaxCode == 126
Uint16 == 65536

\* CHAR_DURATION * 1000 * 0.8 of line 146, in ms
MinSpacing == (CHAR_DURATION * 8) \div 10

----------------------------------------------------------------------------
(* Pure functions *)

Abs(x) == IF x < 0 THEN -x ELSE x

\* Math.round(n / d) for d > 0: the nearest integer, halves towards +infinity
MathRound(n, d) == (2 * n + d) \div (2 * d)

\* charToFrequency that counts ordinals from the space character
charToFrequency_fromSpace(code) ==
    BASE_FREQUENCY + ((code - MinCode) * FREQUENCY_STEP)

\* line 32, for the character with code unit code
charToFrequency(code) == BASE_FREQUENCY + (code * FREQUENCY_STEP)

\* frequencyToChar with Math.floor in place of Math.round
frequencyToChar_floor(frequency) ==
    ((frequency - BASE_FREQUENCY) \div FREQUENCY_STEP) % Uint16

\* the code unit of the one-character string frequencyToChar returns:
\* String.fromCharCode reduces its argument modulo 2^16
frequencyToChar(frequency) ==
    MathRound(frequency - BASE_FREQUENCY, FREQUENCY_STEP) % Uint16

\* line 133, with ctx.sampleRate = SAMPLE_RATE
dominantFrequency(maxIndex) == (maxIndex * SAMPLE_RATE) \div (FFT_SIZE \div Scale)

isStartMarker(f) == Abs(f - START_MARKER_FREQ) < FREQUENCY_TOLERANCE
isEndMarker(f) == Abs(f - END_MARKER_FREQ) < FREQUENCY_TOLERANCE
isPrintable(code) == code >= MinCode /\ code <= MaxCode

\* the closure variables of one startListening invocation, lines 116-119
newReceiver(t) ==
    [isReceiving |-> FALSE, receivedText |-> <<>>,
     lastFrequency |-> 0, lastFrequencyTime |-> t]

\* isAccepted without the range check of line 148
isAccepted_anyOrdinal(r, f, t) ==
    /\ r.isReceiving
    /\ Abs(f - r.lastFrequency) > FREQUENCY_TOLERANCE
    /\ t - r.lastFrequencyTime > MinSpacing

\* isAccepted without the isReceiving test of line 144
isAccepted_whileIdle(r, f, t) ==
    /\ Abs(f - r.lastFrequency) > FREQUENCY_TOLERANCE
    /\ t - r.lastFrequencyTime > MinSpacing
    /\ isPrintable(MathRound(f - BASE_FREQUENCY, FREQUENCY_STEP) % Uint16)

\* isAccepted with >= in the spacing test of line 146
isAccepted_atLeast(r, f, t) ==
    /\ r.isReceiving
    /\ Abs(f - r.lastFrequency) > FREQUENCY_TOLERANCE
    /\ t - r.lastFrequencyTime >= MinSpacing
    /\ isPrintable(MathRound(f - BASE_FREQUENCY, FREQUENCY_STEP) % Uint16)

\* lines 144-148: the tick is taken as a new symbol
isAccepted(r, f, t) ==
    /\ r.isReceiving
    /\ Abs(f - r.lastFrequency) > FREQUENCY_TOLERANCE
    /\ t - r.lastFrequencyTime > MinSpacing
    /\ isPrintable(frequencyToChar(f))

\* analyzeState with a Start Marker branch that keeps the buffer
analyzeState_keepBuffer(r, f, maxValue, t) ==
    IF maxValue > SIGNAL_THRESHOLD
    THEN IF isStartMarker(f)
         THEN [r EXCEPT !.isReceiving = TRUE]
         ELSE IF isEndMarker(f)
         THEN [r EXCEPT !.isReceiving = FALSE]
         ELSE IF isAccepted(r, f, t)
         THEN [r EXCEPT !.receivedText = Append(@, frequencyToChar(f)),
                        !.lastFrequency = f,
                        !.lastFrequencyTime = t]
         ELSE r
    ELSE r

\* analyzeState whose Start Marker branch clears the buffer only when idle
analyzeState_noResync(r, f, maxValue, t) ==
    IF maxValue > SIGNAL_THRESHOLD
    THEN IF isStartMarker(f)
         THEN [r EXCEPT !.isReceiving = TRUE,
                        !.receivedText = IF r.isReceiving THEN @ ELSE <<>>]
         ELSE IF isEndMarker(f)
         THEN [r EXCEPT !.isReceiving = FALSE]
         ELSE IF isAccepted(r, f, t)
         THEN [r EXCEPT !.receivedText = Append(@, frequencyToChar(f)),
                        !.lastFrequency = f,
                        !.lastFrequencyTime = t]
         ELSE r
    ELSE r

\* lines 135-155: the receiver state after one tick (f, maxValue) at time t
analyzeState(r, f, maxValue, t) ==
    IF maxValue > SIGNAL_THRESHOLD
    THEN IF isStartMarker(f)
         THEN [r EXCEPT !.isReceiving = TRUE, !.receivedText = <<>>]
         ELSE IF isEndMarker(f)
         THEN [r EXCEPT !.isReceiving = FALSE]
         ELSE IF isAccepted(r, f, t)
         THEN [r EXCEPT !.receivedText = Append(@, frequencyToChar(f)),
                        !.lastFrequency = f,
                        !.lastFrequencyTime = t]
         ELSE r
    ELSE r

\* analyzeEmit without the test of line 141
analyzeEmit_unguarded(r, f, maxValue) ==
    IF /\ maxValue > SIGNAL_THRESHOLD
       /\ ~isStartMarker(f)
       /\ isEndMarker(f)
    THEN <<r.receivedText>>
    ELSE <<>>

\* lines 139-143: what the tick passes to decoder$.next
analyzeEmit(r, f, maxValue) ==
    IF /\ maxValue > SIGNAL_THRESHOLD
       /\ ~isStartMarker(f)
       /\ isEndMarker(f)
       /\ r.receivedText # <<>>
    THEN <<r.receivedText>>
    ELSE <<>>

----------------------------------------------------------------------------
(* Inputs explored *)

Loops == 1 .. MaxLoops
Calls == 1 .. MaxCalls

\* character codes used in texts: "H" and "I"
Codes == {72, 73}

\* byte magnitudes of the strongest bin: at the threshold and just above it
Magnitudes == {SIGNAL_THRESHOLD, SIGNAL_THRESHOLD + 1}

\* the FFT bin nearest to a frequency
nearestBin(f) == MathRound(f * (FFT_SIZE \div Scale), SAMPLE_RATE)

\* dominant-frequency readings: the markers, the exact symbol tones, the
\* bin centres nearest to them, the edges of the tolerance windows, the
\* neighbours of the printable band and the zero bin
Readings ==
    {START_MARKER_FREQ, END_MARKER_FREQ,
     START_MARKER_FREQ - FREQUENCY_TOLERANCE,
     END_MARKER_FREQ + FREQUENCY_TOLERANCE - 1,
     charToFrequency(MinCode - 1), charToFrequency(MaxCode + 1),
     dominantFrequency(0)}
    \cup {charToFrequency(c) : c \in Codes}
    \cup {dominantFrequency(nearestBin(charToFrequency(c))) : c \in Codes}
    \cup {charToFrequency(c) + FREQUENCY_TOLERANCE : c \in Codes}

\* the readings of the lifecycle specification
CoarseReadings ==
    {START_MARKER_FREQ, END_MARKER_FREQ, charToFrequency(72)}

\* clock steps, ms: half a debounce interval and just over one
Deltas == {MinSpacing \div 2, MinSpacing + 1}

\* states of a fresh AudioContext (the browser's autoplay policy decides)
ContextStates == {"running", "suspended"}

----------------------------------------------------------------------------
(* State after construction *)

idleLoop == [pc |-> "idle", rx |-> newReceiver(0), emitted |-> 0,
             startSeen |-> FALSE, sinceStart |-> 0,
             accepted |-> <<>>, resynced |-> FALSE,
             run |-> [f |-> 0, base |-> 0, timely |-> FALSE,
                      fresh |-> FALSE]]
idleCall == [pc |-> "idle", text |-> <<>>, played |-> 0, due |-> 0]
noEvent == [op |-> "init", id |-> 0, f |-> 0, maxValue |-> 0]

\* the codec and the App after construction
InitCodec ==
    /\ audioContext = "null"
    /\ mediaStream = NULL
    /\ analyser = NULL
    /\ liveTracks = {}
    /\ loops = [i \in Loops |-> idleLoop]
    /\ decoder = <<>>
    /\ now = 0
    /\ calls = [c \in Calls |-> idleCall]
    /\ tones = <<>>
    /\ isSending = FALSE
    /\ channel = [count |-> 0, time |-> 0]
    /\ partial = [i \in Loops |-> <<>>]
    /\ event = noEvent

Init ==
    /\ InitCodec
    /\ probe = [code |-> 0, frequency |-> 0, decoded |-> 0]

----------------------------------------------------------------------------
(* Receiver: startListening, analyze, stopListening *)

\* lines 21-29, the part before the await: the context after the call
\* (created in state s when there was none)
initAudioContext(s) == IF audioContext = "null" THEN s ELSE audioContext

\* history kept beside the receiver state of loop i, for stating properties:
\* whether a Start Marker tick was processed, how many symbols were accepted
\* since the last one and which (accepted), whether a Start Marker tick ever
\* came after accepted symbols that no End Marker tick had followed
\* (resynced), how many frames the loop emitted, and the current run
\* of consecutive above-threshold ticks at one in-band frequency taken while
\* receiving (its frequency, the buffer length when it began, whether it
\* began more than MinSpacing after the last accepted symbol, and whether the
\* tick before it was something else than an in-band symbol reading)
noRun == [f |-> 0, base |-> 0, timely |-> FALSE, fresh |-> FALSE]

isStartTick(f, maxValue) == maxValue > SIGNAL_THRESHOLD /\ isStartMarker(f)

isEndTick(f, maxValue) ==
    maxValue > SIGNAL_THRESHOLD /\ ~isStartMarker(f) /\ isEndMarker(f)

isSymbolTick(f, maxValue) ==
    /\ maxValue > SIGNAL_THRESHOLD
    /\ ~isStartMarker(f)
    /\ ~isEndMarker(f)

history(h, r, f, maxValue) ==
    [h EXCEPT
       !.emitted = @ + Len(analyzeEmit(r, f, maxValue)),
       !.startSeen = @ \/ isStartTick(f, maxValue),
       !.sinceStart = IF isStartTick(f, maxValue) THEN 0
                      ELSE IF isSymbolTick(f, maxValue) /\ isAccepted(r, f, now)
                      THEN @ + 1 ELSE @,
       !.accepted = IF isStartTick(f, maxValue) THEN <<>>
                    ELSE IF isSymbolTick(f, maxValue) /\ isAccepted(r, f, now)
                    THEN Append(@, frequencyToChar(f)) ELSE @,
       !.resynced = @ \/ (/\ isStartTick(f, maxValue)
                          /\ r.isReceiving
                          /\ h.accepted # <<>>),
       !.run = IF /\ isSymbolTick(f, maxValue)
                  /\ r.isReceiving
                  /\ isPrintable(frequencyToChar(f))
               THEN IF @.f = f THEN @
                    ELSE [f |-> f, base |-> Len(r.receivedText),
                          timely |-> now - r.lastFrequencyTime > MinSpacing,
                          fresh |-> @.f = 0]
               ELSE noRun]

\* one run of analyze() by loop i on the reading (f, maxValue), lines 121-160,
\* from receiver state r, with this.analyser set
runAnalyze(i, r, f, maxValue) ==
    /\ Len(decoder) + Len(analyzeEmit(r, f, maxValue)) <= MaxFrames
    /\ decoder' = decoder \o analyzeEmit(r, f, maxValue)
    /\ loops' = [loops EXCEPT
          ![i] = [history(@, r, f, maxValue) EXCEPT
                    !.rx = analyzeState(r, f, maxValue, now),
                    !.pc = IF mediaStream' # NULL THEN "scheduled"
                           ELSE "stopped"]]

\* lines 106-162: the analyser is created, the closure state initialised and
\* analyze() called for the first time
setup(i, f, maxValue) ==
    /\ analyser' = i
    /\ IF mediaStream' = NULL
       THEN \* createMediaStreamSource(null) throws; caught and rethrown
            /\ loops' = [loops EXCEPT ![i].pc = "rejected"]
            /\ decoder' = decoder
       ELSE runAnalyze(i, newReceiver(now), f, maxValue)

\* line 92: a call of startListening, up to the await of getUserMedia
StartListening(i) ==
    /\ loops[i].pc = "idle"
    /\ \A j \in Loops : j < i => loops[j].pc # "idle"
    /\ loops' = [loops EXCEPT ![i].pc = "getUserMedia"]
    /\ event' = [noEvent EXCEPT !.op = "startListening", !.id = i]
    /\ UNCHANGED <<audioContext, mediaStream, analyser, liveTracks, decoder,
                   now, txVars, auxVars>>

\* lines 94-162: getUserMedia resolves with a stream
GetUserMediaResolve(i, s, f, maxValue) ==
    /\ loops[i].pc = "getUserMedia"
    /\ mediaStream' = i
    /\ liveTracks' = liveTracks \cup {i}
    /\ audioContext' = initAudioContext(s)
    /\ IF audioContext' = "suspended"
       THEN /\ loops' = [loops EXCEPT ![i].pc = "resume"]
            /\ UNCHANGED <<analyser, decoder>>
            /\ event' = [noEvent EXCEPT !.op = "getUserMedia", !.id = i]
       ELSE /\ setup(i, f, maxValue)
            /\ event' = [op |-> "setup", id |-> i, f |-> f,
                         maxValue |-> maxValue]
    /\ UNCHANGED <<now, txVars, auxVars>>

\* lines 26, 104-162: audioContext.resume() resolves for startListening
ListenResumed(i, f, maxValue) ==
    /\ loops[i].pc = "resume"
    /\ audioContext' = "running"
    /\ UNCHANGED <<mediaStream, liveTracks>>
    /\ setup(i, f, maxValue)
    /\ event' = [op |-> "setup", id |-> i, f |-> f, maxValue |-> maxValue]
    /\ UNCHANGED <<now, txVars, auxVars>>

\* a rejection after which the call asks for the microphone again
GetUserMediaReject_retry(i) ==
    /\ loops[i].pc = "getUserMedia"
    /\ loops' = [loops EXCEPT ![i].pc = "getUserMedia"]
    /\ event' = [noEvent EXCEPT !.op = "reject", !.id = i]
    /\ UNCHANGED <<audioContext, mediaStream, analyser, liveTracks, decoder,
                   now, txVars, auxVars>>

\* lines 94, 163-166: getUserMedia rejects; the error is rethrown
GetUserMediaReject(i) ==
    /\ loops[i].pc = "getUserMedia"
    /\ loops' = [loops EXCEPT ![i].pc = "rejected"]
    /\ event' = [noEvent EXCEPT !.op = "reject", !.id = i]
    /\ UNCHANGED <<audioContext, mediaStream, analyser, liveTracks, decoder,
                   now, txVars, auxVars>>

\* lines 121-160: the requestAnimationFrame callback of loop i runs on the
\* reading (f, maxValue)
callback(i, f, maxValue) ==
    /\ loops[i].pc = "scheduled"
    /\ UNCHANGED <<audioContext, mediaStream, analyser, liveTracks>>
    /\ IF analyser = NULL
       THEN \* this.analyser! is null: getByteFrequencyData throws
            /\ loops' = [loops EXCEPT ![i].pc = "error"]
            /\ decoder' = decoder
       ELSE runAnalyze(i, loops[i].rx, f, maxValue)
    /\ partial' = [partial EXCEPT
                      ![i] = IF analyser # NULL /\ isStartTick(f, maxValue)
                             THEN <<>> ELSE @]
    /\ event' = [op |-> "analyze", id |-> i, f |-> f, maxValue |-> maxValue]
    /\ UNCHANGED <<now, txVars, probe>>

\* an analysis tick with a reading chosen by the environment
AnimationFrame(i, f, maxValue) ==
    /\ callback(i, f, maxValue)
    /\ UNCHANGED channel

\* the buffer of loop i that a stopListening call finds unfinished
heldAtStop(i) ==
    IF /\ loops[i].pc = "scheduled"
       /\ loops[i].rx.isReceiving
       /\ loops[i].rx.receivedText # <<>>
    THEN loops[i].rx.receivedText
    ELSE partial[i]

\* stopListening that releases the analyser only together with the stream
StopListening_guarded ==
    /\ mediaStream' = NULL
    /\ liveTracks' = IF mediaStream # NULL THEN liveTracks \ {mediaStream}
                     ELSE liveTracks
    /\ analyser' = IF mediaStream # NULL THEN NULL ELSE analyser
    /\ partial' = [i \in Loops |-> heldAtStop(i)]
    /\ event' = [noEvent EXCEPT !.op = "stopListening"]
    /\ UNCHANGED <<audioContext, loops, decoder, now, txVars, channel, probe>>

\* lines 169-175
StopListening ==
    /\ mediaStream' = NULL
    /\ liveTracks' = IF mediaStream # NULL THEN liveTracks \ {mediaStream}
                     ELSE liveTracks
    /\ analyser' = NULL
    /\ partial' = [i \in Loops |-> heldAtStop(i)]
    /\ event' = [noEvent EXCEPT !.op = "stopListening"]
    /\ UNCHANGED <<audioContext, loops, decoder, now, txVars, channel, probe>>

\* the wall clock advances
Advance(dt, limit) ==
    /\ now + dt <= limit
    /\ now' = now + dt
    /\ event' = [noEvent EXCEPT !.op = "advance"]
    /\ UNCHANGED <<audioContext, rxVars, txVars, auxVars>>

\* the receiver operations on the loops L with the readings F of magnitudes
\* M, the clock advancing in steps D up to limit
RxNext(L, F, M, D, limit) ==
    \/ \E i \in L : StartListening(i)
    \/ \E i \in L, s \in ContextStates, f \in F, m \in M :
          GetUserMediaResolve(i, s, f, m)
    \/ \E i \in L, f \in F, m \in M : ListenResumed(i, f, m)
    \/ \E i \in L : GetUserMediaReject(i)
    \/ \E i \in L, f \in F, m \in M : AnimationFrame(i, f, m)
    \/ StopListening
    \/ \E dt \in D : Advance(dt, limit)

\* one listening session, every reading
Next == RxNext({1}, Readings, Magnitudes, Deltas, MaxTime)

Spec == Init /\ [][Next]_vars

\* every startListening invocation, the coarse readings
NextLife ==
    RxNext(Loops, CoarseReadings, {SIGNAL_THRESHOLD + 1}, {MinSpacing + 1},
           MaxLifeTime)

SpecLife == Init /\ [][NextLife]_vars

----------------------------------------------------------------------------
(* Transmitter: encodeText and App.handleSend *)

\* lines 46-47 and 81: buffer.duration * 1000 of a tone generated for
\* CHAR_DURATION, ms (the buffer holds ceil(duration * sampleRate) samples)
toneDuration ==
    (((CHAR_DURATION * SAMPLE_RATE + 999) \div 1000) * 1000) \div SAMPLE_RATE

\* lines 67-73 and 85-89: the frequencies encodeText plays, in order
toneSequence(text) ==
    <<START_MARKER_FREQ>>
    \o [n \in 1 .. Len(text) |-> charToFrequency(text[n])]
    \o <<END_MARKER_FREQ>>

\* playBuffer that does not wait for the tone to end
playBuffer_noWait(c, text, n) ==
    /\ tones' = Append(tones, [frequency |-> toneSequence(text)[n],
                               start |-> now, duration |-> toneDuration,
                               call |-> c])
    /\ calls' = [calls EXCEPT ![c] = [pc |-> "playing", text |-> text,
                                      played |-> n, due |-> now]]

\* lines 75-83: playBuffer of tone number n of call c; the tone starts now and
\* the timer that resumes the call is due a tone duration later
playBuffer(c, text, n) ==
    /\ tones' = Append(tones, [frequency |-> toneSequence(text)[n],
                               start |-> now, duration |-> toneDuration,
                               call |-> c])
    /\ calls' = [calls EXCEPT ![c] = [pc |-> "playing", text |-> text,
                                      played |-> n, due |-> now + toneDuration]]

\* line 249: inputText.trim() is not empty
trimmed(text) == \E n \in 1 .. Len(text) : text[n] # MinCode

\* texts typed into the input: "", "H", "HI", "HIJ", ... and a single space
Texts == {[n \in 1 .. k |-> 71 + n] : k \in 0 .. MaxLen} \cup {<<MinCode>>}

\* lines 248-255 and 64-85: handleSend, through the TX button ("click",
\* disabled while isSending) or the Enter key ("key"), calls encodeText
HandleSend(c, text, via, s) ==
    /\ calls[c].pc = "idle"
    /\ \A d \in Calls : d < c => calls[d].pc # "idle"
    /\ via = "click" => ~isSending
    /\ trimmed(text)
    /\ isSending' = TRUE
    /\ audioContext' = initAudioContext(s)
    /\ IF audioContext' = "suspended"
       THEN /\ calls' = [calls EXCEPT ![c].pc = "resume", ![c].text = text]
            /\ tones' = tones
       ELSE playBuffer(c, text, 1)
    /\ event' = [noEvent EXCEPT !.op = "handleSend", !.id = c]
    /\ UNCHANGED <<rxVars, now, auxVars>>

\* lines 26, 65-85: audioContext.resume() resolves for encodeText
EncodeResumed(c) ==
    /\ calls[c].pc = "resume"
    /\ audioContext' = "running"
    /\ playBuffer(c, calls[c].text, 1)
    /\ event' = [noEvent EXCEPT !.op = "encodeResumed", !.id = c]
    /\ UNCHANGED <<rxVars, now, isSending, auxVars>>

\* lines 80-90 and 256-261: the timer of playBuffer fires; the call starts
\* its next tone, or completes and handleSend clears isSending
TimerFired(c) ==
    /\ calls[c].pc = "playing"
    /\ now >= calls[c].due
    /\ IF calls[c].played < Len(toneSequence(calls[c].text))
       THEN /\ playBuffer(c, calls[c].text, calls[c].played + 1)
            /\ isSending' = isSending
       ELSE /\ calls' = [calls EXCEPT ![c].pc = "done"]
            /\ tones' = tones
            /\ isSending' = FALSE
    /\ event' = [noEvent EXCEPT !.op = "timer", !.id = c]
    /\ UNCHANGED <<audioContext, rxVars, now, auxVars>>

\* clock steps of the transmitter, ms
TxDeltas == {CHAR_DURATION \div 2}

\* enough time for the longest text
MaxTxTime == (MaxLen + 2) * CHAR_DURATION

\* the transmitter operations for the calls C with the texts T
TxNext(C, T) ==
    \/ \E c \in C, text \in T, via \in {"click", "key"},
          s \in ContextStates : HandleSend(c, text, via, s)
    \/ \E c \in C : EncodeResumed(c)
    \/ \E c \in C : TimerFired(c)

NextTx ==
    \/ TxNext(Calls, Texts)
    \/ \E dt \in TxDeltas : Advance(dt, MaxTxTime)

SpecTx == Init /\ [][NextTx]_vars

\* every text over Codes, up to MaxLen characters
AllTexts == UNION {[1 .. n -> Codes] : n \in 0 .. MaxLen}

\* a single encodeText call, every text
NextCall ==
    \/ TxNext({1}, AllTexts)
    \/ \E dt \in TxDeltas : Advance(dt, MaxTxTime)

SpecCall == Init /\ [][NextCall]_vars

----------------------------------------------------------------------------
(* Transmitter and receiver over a noise-free channel *)

\* the reading of a silent room
Silence == [f |-> dominantFrequency(0), maxValue |-> 0]

\* the analysis tick of loop i falls on the tone that is sounding, which is
\* the next one the receiver has not heard, more than MinSpacing after the
\* previous tone was heard; the reading is the tone's exact frequency
Hear(i) ==
    /\ tones # <<>>
    /\ channel.count = Len(tones) - 1
    /\ now < tones[Len(tones)].start + tones[Len(tones)].duration
    /\ channel.count > 0 => now - channel.time > MinSpacing
    /\ callback(i, tones[Len(tones)].frequency, SIGNAL_THRESHOLD + 1)
    /\ channel' = [count |-> Len(tones), time |-> now]

\* one listening session that starts in silence, one encodeText call
NextChannel ==
    \/ StartListening(1)
    \/ \E s \in ContextStates :
          GetUserMediaResolve(1, s, Silence.f, Silence.maxValue)
    \/ ListenResumed(1, Silence.f, Silence.maxValue)
    \/ TxNext({1}, AllTexts)
    \/ \E dt \in TxDeltas : Advance(dt, MaxTxTime)
    \/ Hear(1)

SpecChannel == Init /\ [][NextChannel]_vars

----------------------------------------------------------------------------
(* The receiver fed the readings of one frame *)

\* the dominant-frequency readings of the frame "HI"
Script == toneSequence(<<72, 73>>)

\* enough time for the readings of the script, each just over MinSpacing
\* after the one before
MaxFeedTime == Len(Script) * (MinSpacing + 1)

\* the analysis tick of loop i takes the next reading of the script, above
\* the threshold, no sooner than MinSpacing after the previous one; wide
\* tells whether every reading so far came more than MinSpacing after the
\* one before
Feed(i) ==
    /\ channel.count < Len(Script)
    /\ channel.count > 0 => now - channel.time >= MinSpacing
    /\ callback(i, Script[channel.count + 1], SIGNAL_THRESHOLD + 1)
    /\ channel' = [count |-> channel.count + 1, time |-> now,
                   wide |-> IF channel.count = 0 THEN TRUE
                            ELSE channel.wide
                                 /\ now - channel.time > MinSpacing]

\* one listening session that starts in silence and is fed the script
NextFeed ==
    \/ StartListening(1)
    \/ \E s \in ContextStates :
          GetUserMediaResolve(1, s, Silence.f, Silence.maxValue)
    \/ ListenResumed(1, Silence.f, Silence.maxValue)
    \/ \E dt \in Deltas : Advance(dt, MaxFeedTime)
    \/ Feed(1)

SpecFeed == Init /\ [][NextFeed]_vars

----------------------------------------------------------------------------
(* The symbol/frequency mapping on its own *)

PrintableCodes == MinCode .. MaxCode

\* offsets of a reading from the tone it measures, up to the tolerance
Offsets == (0 - FREQUENCY_TOLERANCE) .. FREQUENCY_TOLERANCE

\* line 32: a character is mapped to its tone; the reading is d away from it
InitMap ==
    /\ InitCodec
    /\ \E code \in PrintableCodes, d \in Offsets :
          probe = [code |-> code, frequency |-> charToFrequency(code) + d,
                   decoded |-> 0]

\* lines 35-38: the reading is mapped back to a character
DecodeReading ==
    /\ probe.decoded = 0
    /\ probe' = [probe EXCEPT !.decoded = frequencyToChar(probe.frequency)]
    /\ event' = [noEvent EXCEPT !.op = "decode"]
    /\ UNCHANGED <<audioContext, rxVars, txVars, now, channel, partial>>

NextMap == DecodeReading

SpecMap == InitMap /\ [][NextMap]_vars

\* lines 136-148: the branch of analyze an above-threshold reading selects
branchOf(f) ==
    IF isStartMarker(f) THEN "start"
    ELSE IF isEndMarker(f) THEN "end"
    ELSE IF isPrintable(frequencyToChar(f)) THEN "symbol"
    ELSE "none"

\* every reading up to the tolerance away from a marker, and every symbol tone
BandReadings ==
    {m + d : m \in {START_MARKER_FREQ, END_MARKER_FREQ}, d \in Offsets}
    \cup {charToFrequency(code) : code \in PrintableCodes}

InitBand ==
    /\ InitCodec
    /\ \E f \in BandReadings :
          probe = [code |-> 0, frequency |-> f, decoded |-> 0,
                   branch |-> "untested"]

\* lines 136-148: the reading goes through the marker tests and the decoding
TestReading ==
    /\ probe.branch = "untested"
    /\ probe' = [probe EXCEPT !.decoded = frequencyToChar(probe.frequency),
                              !.branch = branchOf(probe.frequency)]
    /\ event' = [noEvent EXCEPT !.op = "test"]
    /\ UNCHANGED <<audioContext, rxVars, txVars, now, channel, partial>>

NextBand == TestReading

SpecBand == InitBand /\ [][NextBand]_vars

----------------------------------------------------------------------------
(* Claims *)

\* the receiver has been fed every tone of the encodeText call, one tick each
allHeard ==
    /\ calls[1].pc \in {"playing", "done"}
    /\ channel.count = Len(toneSequence(calls[1].text))

\* C1: round trip.  Once a freshly started receiver has been fed the tones
\* of encodeText(T), one above-threshold tick per tone at the exact tone
\* frequency and more than 0.8 * CHAR_DURATION apart, exactly one frame has
\* been emitted and its text is T.
C1_RoundTrip == allHeard => decoder = <<calls[1].text>>

\* the analysis callback of the session has just processed a reading
ticked == event.op = "analyze" /\ loops[1].pc = "scheduled"

\* C2: one event per completed frame.  A tick that emits finds the receiver
\* RECEIVING (a Start Marker came after the previous End Marker) and leaves
\* the buffer cleared, so that a repeated End Marker emits nothing.
C2_OneEventPerFrame ==
    [][Len(decoder') > Len(decoder)
         => /\ loops[1].rx.isReceiving
            /\ loops'[1].rx.receivedText = <<>>]_vars

\* C3: debounce.  While RECEIVING, a run of consecutive above-threshold ticks
\* at one in-band symbol frequency, begun after a tick that was no symbol
\* reading and more than 0.8 * CHAR_DURATION after the last accepted symbol,
\* has appended exactly one symbol to the buffer.
C3_Debounce ==
    (loops[1].run.f # 0 /\ loops[1].run.timely /\ loops[1].run.fresh)
        => Len(loops[1].rx.receivedText) = loops[1].run.base + 1

\* the ordinal round((f - 2000) / 150) of a reading
ordinal(f) == MathRound(f - 2000 * Scale, 150 * Scale)

isNoise(f, maxValue) ==
    \/ maxValue <= 150
    \/ /\ Abs(f - 1800 * Scale) >= 40 * Scale
       /\ Abs(f - 1600 * Scale) >= 40 * Scale
       /\ (ordinal(f) < 32 \/ ordinal(f) > 126)

\* C4: noise rejection.  A tick at or below the signal threshold, or a
\* non-marker tick whose ordinal is outside [32,126], leaves the receiving
\* flag, the buffer, the last accepted frequency and time unchanged and emits
\* nothing (the first tick of a session leaves them as initialised).
C4_NoiseRejection ==
    [][/\ (event'.op = "analyze" /\ isNoise(event'.f, event'.maxValue))
            => (loops'[1].rx = loops[1].rx /\ decoder' = decoder)
       /\ (/\ event'.op = "setup"
           /\ loops'[1].pc = "scheduled"
           /\ isNoise(event'.f, event'.maxValue))
            => (/\ loops'[1].rx = [isReceiving |-> FALSE,
                                   receivedText |-> <<>>,
                                   lastFrequency |-> 0,
                                   lastFrequencyTime |-> now]
                /\ decoder' = decoder)]_vars

C4_Witness ==
    /\ ticked
    /\ event.maxValue > 150
    /\ isNoise(event.f, event.maxValue)
    /\ loops[1].rx.isReceiving
    /\ loops[1].rx.receivedText # <<>>
    /\ now - loops[1].rx.lastFrequencyTime > MinSpacing

\* C5: no emission without markers.  A receiver that has processed no Start
\* Marker tick has an empty buffer and has emitted nothing.
C5_NoEmissionWithoutMarkers ==
    ~loops[1].startSeen
        => /\ loops[1].rx.receivedText = <<>>
           /\ loops[1].emitted = 0
           /\ decoder = <<>>

C5_Witness ==
    /\ ticked
    /\ ~loops[1].startSeen
    /\ isSymbolTick(event.f, event.maxValue)
    /\ isPrintable(ordinal(event.f))
    /\ now - loops[1].rx.lastFrequencyTime > MinSpacing

\* C6: empty-frame suppression.  An End Marker tick processed when no symbol
\* was accepted since the most recent Start Marker tick emits nothing.
C6_EmptyFrameSuppression ==
    [][(/\ event'.op = "analyze"
        /\ isEndTick(event'.f, event'.maxValue)
        /\ loops[1].startSeen
        /\ loops[1].sinceStart = 0)
         => decoder' = decoder]_vars

C6_Witness ==
    /\ ticked
    /\ isEndTick(event.f, event.maxValue)
    /\ loops[1].startSeen
    /\ loops[1].sinceStart = 0
    /\ decoder # <<>>
    /\ ~loops[1].rx.isReceiving

\* the tones started by call c, in the order they were started
tonesOf(c) == SelectSeq(tones, LAMBDA t : t.call = c)

\* the n-th frequency of the frame for a text: Start Marker, one tone per
\* character in text order, End Marker
frameTone(text, n) ==
    IF n = 1 THEN 1800 * Scale
    ELSE IF n = Len(text) + 2 THEN 1600 * Scale
    ELSE 2000 * Scale + text[n - 1] * 150 * Scale

\* C7: transmit framing and order.  The tones a call has started are the first
\* tones of its frame, in order; each starts no sooner than CHAR_DURATION
\* after the one before; a completed call has started all |T|+2 of them and
\* the End Marker's duration has elapsed.
C7_TransmitFraming ==
    \A c \in Calls :
        /\ Len(tonesOf(c)) <= Len(calls[c].text) + 2
        /\ \A n \in 1 .. Len(tonesOf(c)) :
              tonesOf(c)[n].frequency = frameTone(calls[c].text, n)
        /\ \A n \in 1 .. Len(tonesOf(c)) - 1 :
              tonesOf(c)[n + 1].start >= tonesOf(c)[n].start + CHAR_DURATION
        /\ calls[c].pc = "done"
              => /\ Len(tonesOf(c)) = Len(calls[c].text) + 2
                 /\ now >= tonesOf(c)[Len(tonesOf(c))].start + CHAR_DURATION

C7_Witness ==
    /\ calls[1].pc = "done"
    /\ Len(calls[1].text) >= 2
    /\ calls[1].text[1] # calls[1].text[2]

\* C8: tones never overlap.  No tone is started while an earlier tone of the
\* codec is still within its duration.
C8_NoOverlap ==
    \A m, n \in 1 .. Len(tones) :
        m < n => tones[n].start >= tones[m].start + tones[m].duration

\* C9: stopListening is safe and idempotent.  It leaves mediaStream and the
\* analyser null and touches nothing else of the receiver; called when both
\* are already null it changes nothing.
C9_StopListening ==
    [][event'.op = "stopListening"
         => /\ mediaStream' = NULL
            /\ analyser' = NULL
            /\ loops' = loops
            /\ decoder' = decoder
            /\ (mediaStream = NULL /\ analyser = NULL)
                  => liveTracks' = liveTracks]_vars

C9_Witness ==
    /\ event.op = "stopListening"
    /\ mediaStream = NULL
    /\ analyser = NULL
    /\ liveTracks = {}
    /\ loops[1].pc = "scheduled"
    /\ loops[1].rx.receivedText # <<>>

\* C10: symbol/frequency bijection within tolerance.  A reading within
\* FREQUENCY_TOLERANCE of the tone of an ordinal in [32,126] decodes to that
\* ordinal, and no other ordinal in [32,126] has the same tone.
symbolTone(o) == 2000 * Scale + o * 150 * Scale

C10_Bijection ==
    probe.decoded # 0
        => /\ probe.decoded = probe.code
           /\ Abs(probe.frequency - symbolTone(probe.code)) <= 40 * Scale
           /\ \A o \in 32 .. 126 :
                 o # probe.code => symbolTone(o) # symbolTone(probe.code)

C10_Witness ==
    /\ probe.decoded = 126
    /\ probe.frequency = symbolTone(126) - 40 * Scale

nearStartMarker(f) == Abs(f - 1800 * Scale) <= 40 * Scale
nearEndMarker(f) == Abs(f - 1600 * Scale) <= 40 * Scale

\* C11: markers are disjoint from the symbol band and from each other.  No
\* reading is within FREQUENCY_TOLERANCE of both markers; the tone of an
\* ordinal in [32,126] is within tolerance of neither marker and passes
\* neither marker test; a reading within tolerance of a marker, or taken by
\* a marker test, does not decode to an ordinal in [32,126].
C11_MarkersDisjoint ==
    probe.branch # "untested"
        => /\ ~(nearStartMarker(probe.frequency)
                 /\ nearEndMarker(probe.frequency))
           /\ (\E o \in 32 .. 126 : probe.frequency = symbolTone(o))
                 => /\ ~nearStartMarker(probe.frequency)
                    /\ ~nearEndMarker(probe.frequency)
                    /\ probe.branch = "symbol"
           /\ (\/ nearStartMarker(probe.frequency)
               \/ nearEndMarker(probe.frequency)
               \/ probe.branch \in {"start", "end"})
                 => ~(probe.decoded >= 32 /\ probe.decoded <= 126)

C11_Witness ==
    /\ probe.branch = "end"
    /\ probe.frequency = 1600 * Scale + 40 * Scale - 1
    /\ probe.decoded = Uint16 - 2

\* the character of the probe is one encodeText would transmit
probed == probe.code >= 32 /\ probe.code <= 126

C13_DeviceAccessFailure ==
    [][/\ event'.op = "reject"
            => /\ loops' = [loops EXCEPT
                              ![event'.id] = [idleLoop EXCEPT !.pc = "rejected"]]
               /\ decoder' = decoder
               /\ mediaStream' = mediaStream
               /\ analyser' = analyser
       /\ \A i \in Loops :
             loops[i].pc = "rejected" => loops'[i] = loops[i]]_vars

C13_Witness ==
    /\ loops[1].pc = "rejected"
    /\ loops[1].emitted = 0
    /\ event.op = "advance"
    /\ now > MinSpacing

C15_DefensiveResync ==
    [][/\ (/\ event'.op = "analyze"
            /\ loops'[1].pc = "scheduled"
            /\ isStartTick(event'.f, event'.maxValue))
             => loops'[1].rx.receivedText = <<>>
       /\ Len(decoder') > Len(decoder)
             => /\ isEndTick(event'.f, event'.maxValue)
                /\ loops[1].startSeen
                /\ decoder' = Append(decoder, loops[1].accepted)]_vars

C15_Witness ==
    /\ ticked
    /\ isEndTick(event.f, event.maxValue)
    /\ loops[1].resynced
    /\ decoder = <<<<73>>>>

\* the step is an analysis tick, while RECEIVING, on an above-threshold
\* reading of an ordinal in [32,126] that is more than FREQUENCY_TOLERANCE
\* from the last accepted frequency
newSymbolTick ==
    /\ event'.op = "analyze"
    /\ loops'[1].pc = "scheduled"
    /\ event'.maxValue > 150
    /\ ~nearStartMarker(event'.f)
    /\ ~nearEndMarker(event'.f)
    /\ ordinal(event'.f) >= 32
    /\ ordinal(event'.f) <= 126
    /\ loops[1].rx.isReceiving
    /\ Abs(event'.f - loops[1].rx.lastFrequency) > 40 * Scale

\* the step appends the symbol of its reading to the buffer
appended ==
    loops'[1].rx.receivedText
        = Append(loops[1].rx.receivedText, ordinal(event'.f))

\* the step feeds the last reading of the script
scriptFed == channel.count = 3 /\ channel'.count = 4

\* C16 as stated: acceptance spacing.  A new-symbol tick is accepted whenever
\* at least 0.8 * CHAR_DURATION = 40 ms have passed since the last accepted
\* symbol, exactly 40 ms included; the readings 1800, 12800, 12950, 1600 Hz
\* spaced at least 40 ms apart yield exactly one frame "HI".
C16_AcceptanceSpacing_AsStated ==
    [][/\ (/\ newSymbolTick
            /\ loops[1].rx.lastFrequency # 0
            /\ now - loops[1].rx.lastFrequencyTime >= 40) => appended
       /\ scriptFed => decoder' = <<(<<72, 73>>)>>]_vars

\* C16: acceptance spacing.  A new-symbol tick is accepted if and only if
\* more than 0.8 * CHAR_DURATION = 40 ms have passed since the last accepted
\* symbol (since startListening when there is none), so at exactly 40 ms it
\* is dropped; the readings 1800, 12800, 12950, 1600 Hz each more than 40 ms
\* after the one before yield exactly one frame "HI".
C16_AcceptanceSpacing ==
    [][/\ (newSymbolTick /\ now - loops[1].rx.lastFrequencyTime > 40)
             => appended
       /\ (newSymbolTick /\ now - loops[1].rx.lastFrequencyTime <= 40)
             => loops'[1].rx = loops[1].rx
       /\ (scriptFed /\ channel'.wide) => decoder' = <<(<<72, 73>>)>>]_vars

C16_Witness ==
    /\ channel.count = 4
    /\ channel.wide
    /\ channel.time = MaxFeedTime
    /\ decoder = <<(<<72, 73>>)>>
    /\ ~loops[1].rx.isReceiving

\* C17: single active receive computation.  Whatever startListening and
\* stopListening calls were made, at most one analysis loop has a callback
\* scheduled.
C17_SingleLoop ==
    Cardinality({i \in Loops : loops[i].pc = "scheduled"}) <= 1

\* C18: no partial-frame emission.  A buffer that a receiver held, RECEIVING
\* and non-empty, when stopListening was called is never emitted, neither by
\* the stopListening call nor by a later tick; a startListening call begins
\* IDLE with an empty buffer (its first tick finds it so).
C18_NoPartialFrame ==
    [][/\ event'.op = "stopListening" => decoder' = decoder
       /\ (event'.op = "analyze" /\ Len(decoder') > Len(decoder))
             => partial[event'.id] = <<>>
       /\ (event'.op = "setup" /\ loops'[event'.id].pc = "scheduled")
             => /\ loops'[event'.id].rx.receivedText = <<>>
                /\ loops'[event'.id].rx.isReceiving
                      <=> isStartTick(event'.f, event'.maxValue)
                /\ decoder' = decoder]_vars

\* C19: stop takes effect immediately and cleanly.  The callback that was
\* scheduled when stopListening was called (the stream is still released when
\* it runs) ends without an error, without processing its reading, without
\* emitting and without rescheduling itself.
C19_CleanStop ==
    [][(event'.op = "analyze" /\ mediaStream = NULL)
         => /\ loops'[event'.id].pc = "stopped"
            /\ loops'[event'.id].rx = loops[event'.id].rx
            /\ decoder' = decoder]_vars

\* C20: emitted-frame well-formedness.  Every emitted frame is non-empty and
\* all its characters have codes in [32,126]; no receiver's buffer holds a
\* character outside [32,126].
C20_WellFormed ==
    /\ \A n \in 1 .. Len(decoder) :
          /\ decoder[n] # <<>>
          /\ \A k \in 1 .. Len(decoder[n]) :
                decoder[n][k] >= 32 /\ decoder[n][k] <= 126
    /\ \A i \in Loops :
          \A k \in 1 .. Len(loops[i].rx.receivedText) :
             /\ loops[i].rx.receivedText[k] >= 32
             /\ loops[i].rx.receivedText[k] <= 126

C20_Witness ==
    /\ ticked
    /\ event.maxValue > 150
    /\ event.f = symbolTone(127)
    /\ loops[1].rx.isReceiving
    /\ now - loops[1].rx.lastFrequencyTime > MinSpacing
    /\ loops[1].rx.receivedText = <<>>
    /\ decoder = <<(<<72>>)>>

====
